---- MODULE Spec2Model ----
\* A model of matra/common/wsgi.py: the listening socket (get_socket), the
\* forking server (Server.start, run_child, wait_on_children, wait) and its
\* signal handlers (kill_children, hup), and the request pipeline a serving
\* process runs for one request (Router._dispatch, Resource.__call__, the
\* JSON request deserializer, translate_exception).
\*
\* Every process of the process group is modelled: fork copies the whole
\* Python state of the parent (pc, children, running, dispositions), so a
\* worker carries its own copy of the Server object and of the call stack.
EXTENDS Integers, Sequences, FiniteSets, TLC

\* ---------------------------------------------------------------- bounds
MaxWorkers == 2     \* conf.workers is drawn from 0..MaxWorkers
MaxForks == 2       \* pids the operating system hands out to os.fork
MaxSignals == 2     \* signals the environment sends to the group
MaxElapsed == 2     \* longest one failed listen + sleep takes, in ticks

\* ------------------------------------------------------- program constants
RetrySeconds == 30  \* retry_until = time.time() + 30
TicksPerSecond == 10 \* eventlet.sleep(0.1): one tick is a tenth of a second
threads == 1000     \* Server.__init__(self, threads=1000)

Sup == 0
Procs == 0..MaxForks
NoPid == -1
Sigs == {"TERM", "HUP"}

VARIABLES
    workers,      \* conf.workers
    cert_file,    \* conf.cert_file is set (truthy)
    key_file,     \* conf.key_file is set (truthy)
    pc,           \* where each process is in the program
    children,     \* self.children, one copy per process
    running,      \* self.running, one copy per process
    disp,         \* the disposition of SIGTERM and SIGHUP in each process
    handled,      \* how often each process ran kill_children / hup
    parent,       \* the process that forked each process
    ctx,          \* the frame run_child returns to in a forked process
    wpid,         \* the local pid of wait_on_children
    pool,         \* the size of self.pool, 0 when there is none
    exc,          \* the exception a process ended with
    reaped,       \* the dead processes os.wait has already returned
    sock,         \* get_socket's local sock, then self.sock
    sockShutdown, \* the shared listening socket has been shut down
    released,     \* how often each process ran shutdown_safe + close
    clock,        \* time.time() as get_socket reads it, in ticks
    retry_until,  \* get_socket's local retry_until
    lastListen,   \* the outcome of get_socket's last listen attempt
    sigBudget,    \* signals the environment may still send
    request,      \* the request being handled: method, ContentType parameter,
                  \* Content-Type and Content-Length headers, body, language
    match,        \* environ['wsgiorg.routing_args'][1], a dict as a set of pairs
    serializer,   \* Resource.serializer as the Resource was constructed
    rpc,          \* where the handling of the request is
    invoked,      \* the calls of methods of the three roles, in their order
    action_args,  \* Resource.__call__'s local action_args, a set of pairs
    action_result, \* Resource.__call__'s local action_result
    response,     \* what Resource.__call__ or Router._dispatch returned
    err,          \* the exception the controller call raised (the local err)
    raised,       \* the exception that left Resource.__call__
    log,          \* the levels logged while handling the request
    status        \* the HTTP status wsgify answers with, 0 when it has none

server == <<workers, cert_file, key_file, pc, children, running, disp, handled,
            parent, ctx, wpid, pool, exc, reaped, sock, sockShutdown, released,
            clock, retry_until, lastListen, sigBudget>>

http == <<request, match, serializer, rpc, invoked, action_args, action_result,
          response, err, raised, log, status>>

vars == <<server, http>>

conf == <<workers, cert_file, key_file>>
sockVars == <<sock, clock, retry_until, lastListen>>
procVars == <<children, running, disp, handled, parent, ctx, wpid, pool>>
envVars == <<reaped, sockShutdown, released>>

Dead == {"exited", "raised", "killed"}
Gone == Dead \cup {"unborn", "reaped"}
Alive(p) == pc[p] \notin Gone

\* ------------------------------------------------------------------ Init
\* Server.__init__: children = [], running = True; nothing is forked, every
\* signal has its default disposition.
ServerInit ==
    /\ workers \in 0..MaxWorkers
    /\ cert_file \in BOOLEAN
    /\ key_file \in BOOLEAN
    /\ pc = [p \in Procs |-> IF p = Sup THEN "new" ELSE "unborn"]
    /\ children = [p \in Procs |-> <<>>]
    /\ running = [p \in Procs |-> TRUE]
    /\ disp = [p \in Procs |-> [s \in Sigs |-> "DFL"]]
    /\ handled = [p \in Procs |-> [s \in Sigs |-> 0]]
    /\ parent = [p \in Procs |-> NoPid]
    /\ ctx = [p \in Procs |-> "main"]
    /\ wpid = [p \in Procs |-> NoPid]
    /\ pool = [p \in Procs |-> 0]
    /\ exc = [p \in Procs |-> "none"]
    /\ reaped = {}
    /\ sock = "None"
    /\ sockShutdown = FALSE
    /\ released = [p \in Procs |-> 0]
    /\ clock = 0
    /\ retry_until = 0
    /\ lastListen = "none"
    /\ sigBudget = MaxSignals

\* No request is being handled: the state of the pipeline before a request
\* arrives, and throughout the life of the processes that Spec describes.
NoParam == "<absent>"
NoLength == -1
\* A text: a plain str, or a gettextutils.Message (lazy) with the locale it
\* has been translated to ("" while it is untranslated).
Str(t) == [text |-> t, lazy |-> FALSE, locale |-> ""]
Message(t) == [text |-> t, lazy |-> TRUE, locale |-> ""]
NoException == [cls |-> "none", code |-> 0, message |-> Str(""),
                explanation |-> Str(""), detail |-> Str(""), id |-> 0,
                disguised |-> FALSE]
NoResult == [kind |-> "none", content_type |-> "", body |-> "", status |-> 0]

NoRequest ==
    /\ request = [method |-> "", ContentType |-> NoParam, content_type |-> "",
                  content_length |-> NoLength, body |-> <<>>,
                  accept_language |-> ""]
    /\ match = {}
    /\ serializer = "None"
    /\ rpc = "idle"
    /\ invoked = <<>>
    /\ action_args = {}
    /\ action_result = NoResult
    /\ response = NoResult
    /\ err = NoException
    /\ raised = NoException
    /\ log = <<>>
    /\ status = 0

Init == ServerInit /\ NoRequest

\* ------------------------------------------------------------ get_socket
\* use_ssl = cert_file or key_file
use_ssl == cert_file \/ key_file

\* use_ssl and (not cert_file or not key_file)
BadSslConfig_neither == use_ssl /\ (~cert_file /\ ~key_file)
BadSslConfig == use_ssl /\ (~cert_file \/ ~key_file)

\* err.args[0] != errno.EADDRINUSE: raise; otherwise sleep and try again
Retryable_any(e) == TRUE
Retryable(e) == e = "EADDRINUSE"

\* sock = ssl.wrap_socket(sock, ...) if use_ssl
Wrapped(s) == IF use_ssl THEN "tls" ELSE s

\* while not sock and time.time() < retry_until
LoopOpen == sock = "None" /\ clock < retry_until

\* start() up to the loop of get_socket: self.application = application, then
\* get_socket checks the TLS options and sets sock = None and retry_until.
get_socket_begin_handlersFirst ==
    /\ pc[Sup] = "new"
    /\ disp' = [disp EXCEPT ![Sup] = [s \in Sigs |-> "HANDLER"]]
    /\ IF BadSslConfig
       THEN /\ pc' = [pc EXCEPT ![Sup] = "raised"]
            /\ exc' = [exc EXCEPT ![Sup] = "ConfigError"]
            /\ UNCHANGED retry_until
       ELSE /\ pc' = [pc EXCEPT ![Sup] = "gs_loop"]
            /\ retry_until' = clock + RetrySeconds * TicksPerSecond
            /\ UNCHANGED exc
    /\ UNCHANGED <<conf, http, children, running, handled, parent, ctx, wpid, pool,
                   envVars, sock, clock, lastListen, sigBudget>>
get_socket_begin ==
    /\ pc[Sup] = "new"
    /\ IF BadSslConfig
       THEN /\ pc' = [pc EXCEPT ![Sup] = "raised"]
            /\ exc' = [exc EXCEPT ![Sup] = "ConfigError"]
            /\ UNCHANGED retry_until
       ELSE /\ pc' = [pc EXCEPT ![Sup] = "gs_loop"]
            /\ retry_until' = clock + RetrySeconds * TicksPerSecond
            /\ UNCHANGED exc
    /\ UNCHANGED <<conf, http, procVars, envVars, sock, clock, lastListen, sigBudget>>

\* One iteration of the loop: eventlet.listen, ssl.wrap_socket, and the
\* except clause. A listen that fails with EADDRINUSE is followed by
\* eventlet.sleep(0.1), which lets at least one tick pass.
get_socket_iterate ==
    /\ pc[Sup] = "gs_loop"
    /\ LoopOpen
    /\ \E e \in {"ok", "EADDRINUSE", "EOTHER"} :
        /\ lastListen' = e
        /\ IF e = "ok"
           THEN \E w \in {"ok", "SSLError"} :
                  /\ w = "SSLError" => use_ssl
                  /\ IF w = "ok"
                     THEN /\ sock' = Wrapped("plain")
                          /\ UNCHANGED <<pc, exc>>
                     ELSE /\ sock' = "plain"
                          /\ pc' = [pc EXCEPT ![Sup] = "raised"]
                          /\ exc' = [exc EXCEPT ![Sup] = "SSLError"]
                  /\ UNCHANGED clock
           ELSE IF Retryable(e)
           THEN /\ \E d \in 1..MaxElapsed : clock' = clock + d
                /\ UNCHANGED <<sock, pc, exc>>
           ELSE /\ pc' = [pc EXCEPT ![Sup] = "raised"]
                /\ exc' = [exc EXCEPT ![Sup] = "socket.error"]
                /\ UNCHANGED <<sock, clock>>
    /\ UNCHANGED <<conf, http, procVars, envVars, retry_until, sigBudget>>

\* After the loop: raise "Could not bind" without a socket, otherwise set the
\* socket options and return to start, which stores self.sock. The locals of
\* get_socket are gone once it has returned.
get_socket_end ==
    /\ pc[Sup] = "gs_loop"
    /\ ~LoopOpen
    /\ IF sock = "None"
       THEN /\ pc' = [pc EXCEPT ![Sup] = "raised"]
            /\ exc' = [exc EXCEPT ![Sup] = "BindError"]
            /\ UNCHANGED <<clock, retry_until>>
       ELSE /\ pc' = [pc EXCEPT ![Sup] = "start_mode"]
            /\ clock' = 0
            /\ retry_until' = 0
            /\ UNCHANGED exc
    /\ UNCHANGED <<conf, http, procVars, envVars, sock, lastListen, sigBudget>>

get_socket == get_socket_begin \/ get_socket_iterate \/ get_socket_end

SocketSpec == Init /\ [][get_socket]_vars /\ WF_vars(get_socket)

\* ------------------------------------------------------------ os helpers
\* The memory of a process is gone when the process has terminated: of a
\* dead process the model keeps how it ended (pc, exc), its parent, and how
\* often it released the socket; the rest is set back to the initial value.
Bury(f, D, v) == [q \in Procs |-> IF q \in D THEN v ELSE f[q]]

\* process p ends: how is "exited", "raised" or "killed", e its exception
dies(p, how, e) ==
    /\ pc' = [pc EXCEPT ![p] = how]
    /\ exc' = [exc EXCEPT ![p] = e]
    /\ children' = [children EXCEPT ![p] = <<>>]
    /\ running' = [running EXCEPT ![p] = TRUE]
    /\ disp' = [disp EXCEPT ![p] = [s \in Sigs |-> "DFL"]]
    /\ handled' = [handled EXCEPT ![p] = [s \in Sigs |-> 0]]
    /\ ctx' = [ctx EXCEPT ![p] = "main"]
    /\ wpid' = [wpid EXCEPT ![p] = NoPid]
    /\ pool' = [pool EXCEPT ![p] = 0]
    /\ UNCHANGED parent

NextPid == CHOOSE q \in Procs : pc[q] = "unborn" /\ \A r \in Procs : pc[r] = "unborn" => q <= r
PidLeft == \E q \in Procs : pc[q] = "unborn"

\* list.remove(x): drop the first occurrence of x
RECURSIVE Remove(_, _)
Remove(s, x) ==
    IF s = <<>> THEN <<>>
    ELSE IF Head(s) = x THEN Tail(s)
    ELSE <<Head(s)>> \o Remove(Tail(s), x)

\* the children of p that have terminated and that os.wait has not returned
Zombies(p) == {c \in Procs : parent[c] = p /\ pc[c] \in Dead /\ c \notin reaped}
\* the children of p that os.wait can still wait for
Waitable(p) == {c \in Procs : parent[c] = p /\ c \notin reaped}

\* os.WIFEXITED(status), os.WIFSIGNALED(status) of a terminated child
WIFEXITED(c) == pc[c] \in {"exited", "raised"}
WIFSIGNALED(c) == pc[c] = "killed"

\* os.wait() returns OSError(EINTR) when a handler ran during the call
Eintr(pcs, p) == [pcs EXCEPT ![p] = IF @ = "reap_wait" THEN "reap_head" ELSE @]

\* ---------------------------------------------------------- Server.start
\* After get_socket: conf.workers == 0 starts the single process server on
\* a GreenPool(size=self.threads) and returns; otherwise the handlers of
\* SIGTERM and SIGHUP are installed before the loop that forks.
InstallHandlers(d) == [s \in Sigs |-> "HANDLER"]

\* if conf.workers == 0
SingleProcess_never == FALSE
SingleProcess == workers = 0

start_mode ==
    /\ pc[Sup] = "start_mode"
    /\ IF SingleProcess
       THEN /\ pool' = [pool EXCEPT ![Sup] = threads]
            /\ pc' = [pc EXCEPT ![Sup] = "started"]
            /\ UNCHANGED disp
       ELSE /\ disp' = [disp EXCEPT ![Sup] = InstallHandlers(@)]
            /\ pc' = [pc EXCEPT ![Sup] = "start_loop"]
            /\ UNCHANGED pool
    /\ UNCHANGED <<conf, http, children, running, handled, parent, ctx, wpid, exc,
                   envVars, sockVars, sigBudget>>

\* run_child, called from frame c with self.children = ch: os.fork gives the
\* child a copy of the caller; the parent appends the new pid. The pc of the
\* parent after the call is back at the head of the calling loop.
AfterCall(c) == IF c = "start" THEN "start_loop" ELSE "reap_head"

run_child(p, c, ch) ==
    /\ PidLeft
    /\ LET q == NextPid IN
        /\ pc' = [pc EXCEPT ![q] = "child_hup", ![p] = AfterCall(c)]
        /\ children' = [children EXCEPT ![q] = ch, ![p] = Append(ch, q)]
        /\ running' = [running EXCEPT ![q] = running[p]]
        /\ disp' = [disp EXCEPT ![q] = disp[p]]
        /\ parent' = [parent EXCEPT ![q] = p]
        /\ ctx' = [ctx EXCEPT ![q] = c]
        /\ pool' = [pool EXCEPT ![q] = pool[p]]
        /\ wpid' = [wpid EXCEPT ![q] = NoPid, ![p] = NoPid]
    /\ UNCHANGED <<conf, http, handled, exc, envVars, sockVars, sigBudget>>

\* os.fork raises OSError (EAGAIN, ENOMEM): start lets it through, and so
\* does wait_on_children, whose except clause passes only EINTR and ECHILD.
fork_fails(p) ==
    /\ dies(p, "raised", "OSError")
    /\ UNCHANGED <<conf, http, envVars, sockVars, sigBudget>>

\* while len(self.children) < conf.workers: self.run_child()
StartMore_inclusive(p) == Len(children[p]) <= workers
StartMore(p) == Len(children[p]) < workers

start_fork(p) ==
    /\ pc[p] = "start_loop"
    /\ StartMore(p)
    /\ run_child(p, "start", children[p])

start_fork_fails(p) ==
    /\ pc[p] = "start_loop"
    /\ StartMore(p)
    /\ fork_fails(p)

start_return(p) ==
    /\ pc[p] = "start_loop"
    /\ ~StartMore(p)
    /\ pc' = [pc EXCEPT ![p] = "started"]
    /\ UNCHANGED <<conf, http, procVars, exc, envVars, sockVars, sigBudget>>

\* ----------------------------------------------------------- Server.wait
\* if self.children: self.wait_on_children() else: self.pool.waitall()
wait(p) ==
    /\ pc[p] = "started"
    /\ pc' = [pc EXCEPT ![p] = IF children[p] # <<>> THEN "reap_head" ELSE "pool_wait"]
    /\ UNCHANGED <<conf, http, procVars, exc, envVars, sockVars, sigBudget>>

\* self.pool.waitall() returns when the single process server has ended;
\* wait returns and the process ends.
pool_done(p) ==
    /\ pc[p] = "pool_wait"
    /\ dies(p, "exited", "none")
    /\ UNCHANGED <<conf, http, envVars, sockVars, sigBudget>>

\* ------------------------------------------------------ wait_on_children
\* while self.running: the test at the head of the loop
reap_head(p) ==
    /\ pc[p] = "reap_head"
    /\ pc' = [pc EXCEPT ![p] = IF running[p] THEN "reap_call" ELSE "release"]
    /\ UNCHANGED <<conf, http, procVars, exc, envVars, sockVars, sigBudget>>

\* the process enters the system call of os.wait()
reap_call(p) ==
    /\ pc[p] = "reap_call"
    /\ pc' = [pc EXCEPT ![p] = "reap_wait"]
    /\ UNCHANGED <<conf, http, procVars, exc, envVars, sockVars, sigBudget>>

\* if os.WIFEXITED(status) or os.WIFSIGNALED(status)
IsDead(c) == WIFEXITED(c) \/ WIFSIGNALED(c)

\* pid, status = os.wait() returns a terminated child
reap_wait(p) ==
    /\ pc[p] = "reap_wait"
    /\ \E c \in Zombies(p) :
        /\ reaped' = reaped \cup {c}
        /\ exc' = [exc EXCEPT ![c] = "none"]
        /\ IF IsDead(c)
           THEN /\ wpid' = [wpid EXCEPT ![p] = c]
                /\ pc' = [pc EXCEPT ![p] = "reap_got", ![c] = "reaped"]
           ELSE /\ pc' = [pc EXCEPT ![p] = "reap_head", ![c] = "reaped"]
                /\ UNCHANGED wpid
    /\ UNCHANGED <<conf, http, children, running, disp, handled, parent, ctx, pool,
                   sockShutdown, released, sockVars, sigBudget>>

\* except OSError as err: if err.errno not in (errno.EINTR, errno.ECHILD): raise
Passed_onlyEintr(e) == e = "EINTR"
Passed(e) == e \in {"EINTR", "ECHILD"}

except_OSError(p, e) ==
    IF Passed(e)
    THEN /\ pc' = [pc EXCEPT ![p] = "reap_head"]
         /\ UNCHANGED <<conf, http, procVars, exc, envVars, sockVars, sigBudget>>
    ELSE /\ dies(p, "raised", "OSError(" \o e \o ")")
         /\ UNCHANGED <<conf, http, envVars, sockVars, sigBudget>>

\* os.wait() raises OSError(ECHILD) when the process has no child to wait
\* for: the except clause passes it and the loop goes on.
reap_echild(p) ==
    /\ pc[p] = "reap_wait"
    /\ Waitable(p) = {}
    /\ except_OSError(p, "ECHILD")

\* os.wait() raises OSError with another errno: the except clause raises it
\* again, out of wait_on_children and out of wait.
reap_wait_raises(p) ==
    /\ pc[p] = "reap_wait"
    /\ except_OSError(p, "EIO")

\* self.children.remove(pid); self.run_child()
Reaped_keep(p) == children[p]
Reaped(p) == Remove(children[p], wpid[p])

reap_respawn(p) ==
    /\ pc[p] = "reap_got"
    /\ run_child(p, "reap", Reaped(p))

reap_respawn_fails(p) ==
    /\ pc[p] = "reap_got"
    /\ fork_fails(p)

\* eventlet.greenio.shutdown_safe(self.sock); self.sock.close(); then
\* wait_on_children and wait return and the process ends.
release(p) ==
    /\ pc[p] = "release"
    /\ sockShutdown' = TRUE
    /\ released' = [released EXCEPT ![p] = @ + 1]
    /\ dies(p, "exited", "none")
    /\ UNCHANGED <<conf, http, reaped, sockVars, sigBudget>>

\* ------------------------------------------------ run_child in the child
\* signal.signal(signal.SIGHUP, signal.SIG_DFL)
child_hup(p) ==
    /\ pc[p] = "child_hup"
    /\ disp' = [disp EXCEPT ![p]["HUP"] = "DFL"]
    /\ pc' = [pc EXCEPT ![p] = "child_term"]
    /\ UNCHANGED <<conf, http, children, running, handled, parent, ctx, wpid, pool,
                   exc, envVars, sockVars, sigBudget>>

\* signal.signal(signal.SIGTERM, signal.SIG_DFL), then run_server up to
\* eventlet.wsgi.server: self.pool = eventlet.GreenPool(size=self.threads)
child_term(p) ==
    /\ pc[p] = "child_term"
    /\ disp' = [disp EXCEPT ![p]["TERM"] = "DFL"]
    /\ pool' = [pool EXCEPT ![p] = threads]
    /\ pc' = [pc EXCEPT ![p] = "serving"]
    /\ UNCHANGED <<conf, http, children, running, handled, parent, ctx, wpid,
                   exc, envVars, sockVars, sigBudget>>

\* eventlet.wsgi.server ends with socket.error(EINVAL) once the listening
\* socket has been shut down; run_server passes it and goes on to
\* self.pool.waitall().
serve_exit(p) ==
    /\ pc[p] = "serving"
    /\ sockShutdown
    /\ pc' = [pc EXCEPT ![p] = "waitall"]
    /\ UNCHANGED <<conf, http, procVars, exc, envVars, sockVars, sigBudget>>

\* eventlet.wsgi.server ends with another socket.error: run_server raises
\* it again and the worker ends with the exception.
serve_raises(p) ==
    /\ pc[p] = "serving"
    /\ dies(p, "raised", "socket.error")
    /\ UNCHANGED <<conf, http, envVars, sockVars, sigBudget>>

\* self.pool.waitall() returns when the requests in flight are done; then
\* run_server returns, run_child logs and returns to the frame that called
\* it, which is the worker's copy of the loop that forked it.
waitall_done(p) ==
    /\ pc[p] = "waitall"
    /\ pc' = [pc EXCEPT ![p] = AfterCall(ctx[p])]
    /\ ctx' = [ctx EXCEPT ![p] = "main"]
    /\ UNCHANGED <<conf, http, children, running, disp, handled, parent, wpid, pool,
                   exc, envVars, sockVars, sigBudget>>

\* --------------------------------------------------------------- signals
\* os.killpg(0, signal.SIGTERM) with the dispositions d: every live process
\* of the group gets SIGTERM. A process with the default disposition is
\* terminated, one that ignores it is left alone, and one that still has
\* kill_children installed runs it: it ignores SIGTERM, clears its running
\* and signals the group again, which by then finds nothing left to do.
killpg(pcs, d, r, h) ==
    LET live(q) == pcs[q] \notin Gone
        H == {q \in Procs : live(q) /\ d[q]["TERM"] = "HANDLER"}
        K == {q \in Procs : live(q) /\ d[q]["TERM"] = "DFL"}
    IN  [pc |-> [q \in Procs |-> IF q \in K THEN "killed"
                                 ELSE IF q \in H /\ pcs[q] = "reap_wait" THEN "reap_head"
                                 ELSE pcs[q]],
         disp |-> [q \in Procs |-> IF q \in H THEN [d[q] EXCEPT !["TERM"] = "IGN"] ELSE d[q]],
         running |-> [q \in Procs |-> IF q \in H THEN FALSE ELSE r[q]],
         handled |-> [q \in Procs |-> IF q \in H THEN [h[q] EXCEPT !["TERM"] = @ + 1] ELSE h[q]]]

\* def kill_children(*args), run by process p:
\*     signal.signal(signal.SIGTERM, signal.SIG_IGN)
\*     self.running = False
\*     os.killpg(0, signal.SIGTERM)
kill_children_noIgnore(p) ==
    killpg(Eintr(pc, p),
           disp,
           [running EXCEPT ![p] = FALSE],
           [handled EXCEPT ![p]["TERM"] = @ + 1])
kill_children(p) ==
    killpg(Eintr(pc, p),
           [disp EXCEPT ![p]["TERM"] = "IGN"],
           [running EXCEPT ![p] = FALSE],
           [handled EXCEPT ![p]["TERM"] = @ + 1])

\* def hup(*args), run by process p:
\*     signal.signal(signal.SIGHUP, signal.SIG_IGN)
\*     self.running = False
hup_noIgnore(p) ==
    [pc |-> Eintr(pc, p),
     disp |-> disp,
     running |-> [running EXCEPT ![p] = FALSE],
     handled |-> [handled EXCEPT ![p]["HUP"] = @ + 1]]
hup(p) ==
    [pc |-> Eintr(pc, p),
     disp |-> [disp EXCEPT ![p]["HUP"] = "IGN"],
     running |-> [running EXCEPT ![p] = FALSE],
     handled |-> [handled EXCEPT ![p]["HUP"] = @ + 1]]

\* SIG_DFL of SIGTERM and of SIGHUP: the process is terminated
default_action(p) ==
    [pc |-> [pc EXCEPT ![p] = "killed"],
     disp |-> disp, running |-> running, handled |-> handled]

\* SIG_IGN: the signal is discarded
ignored == [pc |-> pc, disp |-> disp, running |-> running, handled |-> handled]

\* The environment sends SIGTERM or SIGHUP to process p. What happens is
\* decided by the disposition of the signal in p.
signal(sig, p) ==
    /\ sigBudget > 0
    /\ Alive(p)
    /\ sigBudget' = sigBudget - 1
    /\ LET n == CASE disp[p][sig] = "DFL" -> default_action(p)
                  [] disp[p][sig] = "IGN" -> ignored
                  [] sig = "TERM" -> kill_children(p)
                  [] sig = "HUP" -> hup(p)
           D == {q \in Procs : n.pc[q] = "killed" /\ pc[q] # "killed"}
       IN  /\ pc' = n.pc
           /\ disp' = Bury(n.disp, D, [s \in Sigs |-> "DFL"])
           /\ running' = Bury(n.running, D, TRUE)
           /\ handled' = Bury(n.handled, D, [s \in Sigs |-> 0])
           /\ children' = Bury(children, D, <<>>)
           /\ ctx' = Bury(ctx, D, "main")
           /\ wpid' = Bury(wpid, D, NoPid)
           /\ pool' = Bury(pool, D, 0)
    /\ UNCHANGED <<conf, http, parent, exc, envVars, sockVars>>

\* Where a KeyboardInterrupt raised at pc in a process takes it:
\*   in the try of wait_on_children, the except clause breaks out of the loop;
\*   at the while test and after the loop it leaves wait_on_children, and the
\*   except clause of wait passes it; so it does out of self.pool.waitall();
\*   eventlet.wsgi.server ends its loop; in the rest of run_child it reaches
\*   the frame that called run_child; anywhere else nothing catches it.
InTry == {"reap_call", "reap_wait", "reap_got"}
InWait == {"reap_head", "release", "pool_wait"}
InChild == {"child_hup", "child_term", "waitall"}

Interrupted(p) ==
    CASE pc[p] \in InTry -> "release"
      [] pc[p] \in InWait -> "exited"
      [] pc[p] = "serving" -> "waitall"
      [] pc[p] \in InChild /\ ctx[p] = "reap" -> "release"
      [] OTHER -> "raised"

\* The environment sends SIGINT to process p: Python raises KeyboardInterrupt
\* in it.
keyboard_interrupt(p) ==
    /\ sigBudget > 0
    /\ Alive(p)
    /\ sigBudget' = sigBudget - 1
    /\ IF Interrupted(p) \in Dead
       THEN dies(p, Interrupted(p),
                 IF Interrupted(p) = "raised" THEN "KeyboardInterrupt" ELSE "none")
       ELSE /\ pc' = [pc EXCEPT ![p] = Interrupted(p)]
            /\ ctx' = [ctx EXCEPT ![p] = IF pc[p] \in InChild THEN "main" ELSE @]
            /\ UNCHANGED <<children, running, disp, handled, parent, wpid, pool, exc>>
    /\ UNCHANGED <<conf, http, envVars, sockVars>>

\* ------------------------------------------------------------------ Next
Next ==
    \/ get_socket_begin
    \/ get_socket_iterate
    \/ get_socket_end
    \/ start_mode
    \/ \E p \in Procs :
        \/ start_fork(p)
        \/ start_fork_fails(p)
        \/ start_return(p)
        \/ wait(p)
        \/ pool_done(p)
        \/ reap_head(p)
        \/ reap_call(p)
        \/ reap_wait(p)
        \/ reap_echild(p)
        \/ reap_wait_raises(p)
        \/ reap_respawn(p)
        \/ reap_respawn_fails(p)
        \/ release(p)
        \/ child_hup(p)
        \/ child_term(p)
        \/ serve_exit(p)
        \/ serve_raises(p)
        \/ waitall_done(p)
        \/ keyboard_interrupt(p)
        \/ \E sig \in Sigs : signal(sig, p)

Spec == Init /\ [][Next]_vars

\* The steps that process p takes by itself once the scheduler runs it: the
\* statements of start, wait, wait_on_children, run_child and run_server.
\* os.wait returns when a child has terminated or there is none, and
\* eventlet.wsgi.server ends when the socket has been shut down. Signals,
\* socket errors and the end of a single process server come from outside.
Runs(p) ==
    \/ start_fork(p) \/ start_fork_fails(p) \/ start_return(p)
    \/ wait(p)
    \/ reap_head(p) \/ reap_call(p) \/ reap_wait(p) \/ reap_echild(p)
    \/ reap_respawn(p) \/ reap_respawn_fails(p)
    \/ release(p)
    \/ child_hup(p) \/ child_term(p) \/ serve_exit(p) \/ waitall_done(p)

\* Every process that can run does run.
FairSpec == Spec /\ \A p \in Procs : WF_vars(Runs(p))

\* ============================================================ the request
\* json.loads on a str over the characters below: an optional run of
\* whitespace, one value, an optional run of whitespace.  A value is the
\* number 1, a list of values, or an object; an object's members start with
\* a double quote, which is not among the characters, so that the only
\* object without an error is the empty one.
Chars == {"{", "}", "[", "]", ",", "1", " ", "x"}
JsonInt == [type |-> "int", items |-> <<>>]
JsonDict == [type |-> "dict", items |-> <<>>]
JsonList(xs) == [type |-> "list", items |-> xs]
Scanned(v, r) == [ok |-> TRUE, value |-> v, rest |-> r, msg |-> ""]
ScanError(m) == [ok |-> FALSE, value |-> JsonInt, rest |-> <<>>, msg |-> m]

RECURSIVE skip_ws(_)
skip_ws(s) == IF s # <<>> /\ Head(s) = " " THEN skip_ws(Tail(s)) ELSE s

RECURSIVE scan_once(_), JSONArray(_, _)
\* JSONObject, for the text after the opening brace
JSONObject(s) ==
    LET t == skip_ws(s)
    IN  IF t # <<>> /\ Head(t) = "}"
        THEN Scanned(JsonDict, Tail(t))
        ELSE ScanError("Expecting property name")

\* JSONArray, for the text before the next item and the items scanned so far
JSONArray(s, xs) ==
    LET v == scan_once(skip_ws(s))
    IN  IF ~v.ok
        THEN ScanError("Expecting object")
        ELSE LET t == skip_ws(v.rest)
             IN  IF t # <<>> /\ Head(t) = "]"
                 THEN Scanned(JsonList(Append(xs, v.value)), Tail(t))
                 ELSE IF t # <<>> /\ Head(t) = ","
                      THEN JSONArray(Tail(t), Append(xs, v.value))
                      ELSE ScanError("Expecting , delimiter")

scan_once(s) ==
    IF s = <<>>
    THEN ScanError("No JSON object could be decoded")
    ELSE CASE Head(s) = "{" -> JSONObject(Tail(s))
           [] Head(s) = "[" ->
                LET t == skip_ws(Tail(s))
                IN  IF t # <<>> /\ Head(t) = "]"
                    THEN Scanned(JsonList(<<>>), Tail(t))
                    ELSE JSONArray(t, <<>>)
           [] Head(s) = "1" -> Scanned(JsonInt, Tail(s))
           [] OTHER -> ScanError("No JSON object could be decoded")

\* json.loads(datastring): the value, or the ValueError and its message
loads(s) ==
    LET v == scan_once(skip_ws(s))
    IN  IF ~v.ok
        THEN v
        ELSE IF skip_ws(v.rest) # <<>> THEN ScanError("Extra data") ELSE v

\* str.startswith, for a str kept as a sequence of characters
startswith(s, c) == s # <<>> /\ Head(s) = c

\* ------------------------------------------------------ the deserializer
\* None and the empty str are both false in "aws_content_type or ..."
Truthy(v) == v \notin {NoParam, ""}

\* content_type.startswith('text/plain'), for the content types of the model
TextPlain == {"text/plain", "text/plainx"}

is_json_content_type_anyMethod(req) ==
    LET content_type == IF Truthy(req.ContentType) THEN req.ContentType
                        ELSE req.content_type
        effective == IF ~Truthy(content_type) \/ content_type \in TextPlain
                     THEN "application/json" ELSE content_type
    IN  effective \in {"JSON", "application/json"} /\ startswith(req.body, "{")

is_json_content_type_headerOnly(req) ==
    LET effective == IF ~Truthy(req.content_type) \/ req.content_type \in TextPlain
                     THEN "application/json" ELSE req.content_type
    IN  effective \in {"JSON", "application/json"} /\ startswith(req.body, "{")

is_json_content_type(req) ==
    LET aws_content_type == req.ContentType
        content_type == IF req.method = "GET"
                        THEN IF Truthy(aws_content_type) THEN aws_content_type
                             ELSE req.content_type
                        ELSE req.content_type
        effective == IF ~Truthy(content_type) \/ content_type \in TextPlain
                     THEN "application/json" ELSE content_type
    IN  effective \in {"JSON", "application/json"} /\ startswith(req.body, "{")

\* JSONRequestDeserializer.has_body; "and" does not read the body of a
\* request whose Content-Length is not positive
has_body(req) == req.content_length > 0 /\ is_json_content_type(req)

\* webob.exc.HTTPBadRequest(detail): Exception.__init__(self, detail) makes
\* detail the message; the explanation is the one of the class
HTTPBadRequest(detail, n) ==
    [cls |-> "HTTPBadRequest", code |-> 400, message |-> detail,
     explanation |-> Str("<HTTPBadRequest.explanation>"), detail |-> detail,
     id |-> n, disguised |-> FALSE]

\* JSONRequestDeserializer.from_json: the value, or the 400 raised for it
from_json_uncaught(datastring) ==
    LET v == loads(datastring)
    IN  [raises |-> ~v.ok, value |-> v.value,
         exc |-> IF v.ok THEN NoException
                 ELSE [HTTPBadRequest(Str(v.msg), 3) EXCEPT !.cls = "ValueError",
                                                           !.code = 0]]

from_json(datastring) ==
    LET v == loads(datastring)
    IN  IF v.ok THEN [raises |-> FALSE, value |-> v.value, exc |-> NoException]
        ELSE [raises |-> TRUE, value |-> v.value,
              exc |-> HTTPBadRequest(Str(v.msg), 3)]

\* JSONRequestDeserializer.default: the dict it returns, as a set of pairs,
\* or the exception of from_json
default_parsesAnyBody(req) ==
    LET v == from_json(req.body)
    IN  [raises |-> v.raises,
         value |-> IF v.raises THEN {} ELSE {<<"body", v.value>>},
         exc |-> v.exc]

default(req) ==
    IF has_body(req)
    THEN LET v == from_json(req.body)
         IN  [raises |-> v.raises,
              value |-> IF v.raises THEN {} ELSE {<<"body", v.value>>},
              exc |-> v.exc]
    ELSE [raises |-> FALSE, value |-> {}, exc |-> NoException]

\* --------------------------------------------------- translate_exception
\* The classes of webob.exc that the model raises, and TypeError and
\* ValueError for the exceptions that are no HTTPException.
IsHTTPOk(e) == e.cls = "HTTPCreated"
IsHTTPRedirection(e) == e.cls = "HTTPFound"
IsHTTPError(e) == e.cls \in {"HTTPBadRequest", "HTTPNotFound"}
IsHTTPException(e) == IsHTTPOk(e) \/ IsHTTPRedirection(e) \/ IsHTTPError(e)

\* gettextutils.get_localized_message: a Message is translated to the
\* locale, any other object is returned as it is
get_localized_message(m, locale) ==
    IF m.lazy THEN [m EXCEPT !.locale = locale] ELSE m

\* Request.best_match_language: the best match of Accept-Language among the
\* available languages, en_US when there is none
AvailableLanguages == {"en_US", "de"}
best_match_language(req) ==
    IF req.accept_language \in AvailableLanguages THEN req.accept_language
    ELSE "en_US"

translate_exception_messageOnly(e, locale) ==
    [e EXCEPT !.message = get_localized_message(e.message, locale)]

translate_exception(e, locale) ==
    LET message == get_localized_message(e.message, locale)
    IN  IF IsHTTPError(e)
        THEN IF ~e.explanation.lazy
             THEN [e EXCEPT !.message = message, !.explanation = message,
                            !.detail = Str("")]
             ELSE [e EXCEPT !.message = message,
                            !.explanation = get_localized_message(@, locale),
                            !.detail = get_localized_message(@, locale)]
        ELSE [e EXCEPT !.message = message]

\* exception.HTTPExceptionDisguise(http_exc): a marker around the exception,
\* itself no webob.exc.HTTPException
HTTPExceptionDisguise(e) == [e EXCEPT !.disguised = TRUE]

\* ------------------------------------------------------------- a request
\* The requests, routes and Resources of the model.  A dict is the set of
\* its (key, value) pairs.
HttpMethods == {"GET", "POST"}
Params == {NoParam, "JSON", "json", "XML", "text/plain"}
ContentTypes == {"", "application/json", "JSON", "text/plain", "text/plainx",
                 "application/xml"}
Bodies == {<<>>, <<"{", "}">>, <<"{", "x">>, <<"[", "1", "]">>,
           <<" ", "{", "}">>, <<"{", "}", "x">>}
Languages == {"", "de"}
Actions == {"create", "ingest_metrics"}
Serializers == {"None", "QuerySerializer"}

Requests ==
    {r \in [method : HttpMethods, ContentType : Params,
            content_type : ContentTypes, content_length : {NoLength, 0, 2, 3},
            body : Bodies, accept_language : Languages] :
        r.content_length \in {NoLength, Len(r.body)}}

Routed(a) == {<<"controller", "resource">>, <<"action", a>>,
              <<"format", "json">>, <<"tenant_id", "t1">>}
Matches == {{}} \cup {Routed(a) : a \in Actions}

\* dict.get, del d[k] and dict.update
Get(d, k) == IF \E kv \in d : kv[1] = k
             THEN (CHOOSE kv \in d : kv[1] = k)[2] ELSE "None"
Del(d, k) == {kv \in d : kv[1] # k}
Update(d, e) == {kv \in d : \A n \in e : n[1] # kv[1]} \cup e

\* A request has arrived at a Router in a serving process.
ResourceInit ==
    /\ ServerInit
    /\ workers = 0
    /\ ~cert_file
    /\ ~key_file
    /\ request \in Requests
    /\ match \in Matches
    /\ serializer \in Serializers
    /\ rpc = "route"
    /\ invoked = <<>>
    /\ action_args = {}
    /\ action_result = NoResult
    /\ response = NoResult
    /\ err = NoException
    /\ raised = NoException
    /\ log = <<>>
    /\ status = 0

\* The methods that the classes of the three roles define.
MethodsOf(cls) ==
    CASE cls = "JSONRequestDeserializer" -> {"has_body", "from_json", "default"}
      [] cls = "MetricsController" -> {"default", "ingest_metrics"}
      [] cls = "JSONResponseSerializer" -> {"to_json", "default"}
      [] cls = "XMLResponseSerializer" -> {"object_to_element", "to_xml", "default"}
      [] cls = "QuerySerializer" ->
            {"_populate_response_header", "create", "to_json", "default"}

\* Resource.dispatch: the method of obj that is called for the action
dispatch_default(cls, action) == "default"
dispatch(cls, action) == IF action \in MethodsOf(cls) THEN action ELSE "default"

\* Resource.get_action_args
get_action_args(m) == Del(Del(m, "controller"), "format")

\* request_environment['wsgiorg.routing_args'][1].copy(): the deletions of
\* get_action_args and the pop of __call__ change the copy, which has become
\* args; the mapping m in the environment is left as it is.
copy_shared(m, args) == args
copy(m, args) == m

\* ------------------------------------------------------ Router._dispatch
\* webob.exc.HTTPNotFound() returned as the response
HTTPNotFoundResponse ==
    [kind |-> "HTTPNotFound", content_type |-> "text/html", body |-> "",
     status |-> 404]

\* "if not match": no route matched the request
NoMatch_never(m) == FALSE
NoMatch(m) == m = {}

Router_dispatch ==
    /\ rpc = "route"
    /\ IF NoMatch(match)
       THEN /\ response' = HTTPNotFoundResponse
            /\ status' = 404
            /\ rpc' = "done"
       ELSE /\ rpc' = "deserialize"
            /\ UNCHANGED <<response, status>>
    /\ UNCHANGED <<server, request, match, serializer, invoked, action_args,
                   action_result, err, raised, log>>

\* ----------------------------------------------------- Resource.__call__
\* action = action_args.pop('action', None)
Action == Get(get_action_args(match), "action")

\* The deserializer call and action_args.update, which no try encloses.
Resource_deserialize ==
    /\ rpc = "deserialize"
    /\ LET m == dispatch("JSONRequestDeserializer", Action)
           d == default(request)
       IN  /\ match' = copy(match, Del(get_action_args(match), "action"))
           /\ invoked' = Append(invoked, <<"deserializer", "JSONRequestDeserializer", m>>)
           /\ IF d.raises
              THEN /\ raised' = d.exc
                   /\ rpc' = "raised"
                   /\ UNCHANGED action_args
              ELSE /\ action_args' = Update(Del(get_action_args(match), "action"),
                                            d.value)
                   /\ rpc' = "controller"
                   /\ UNCHANGED raised
    /\ UNCHANGED <<server, request, serializer, action_result, response,
                   err, log, status>>

\* What a controller action returns: a dict with the stack links that
\* QuerySerializer.create reads, another dict with one key, an API exception
\* with get_unserialized_body (its body is XML from its constructor), or an
\* object that no serializer can write.
Results ==
    {[kind |-> "stack", content_type |-> "", body |-> "", status |-> 0],
     [kind |-> "dict", content_type |-> "", body |-> "", status |-> 0],
     [kind |-> "MatraAPIException", content_type |-> "application/xml",
      body |-> "xml", status |-> 400],
     [kind |-> "object", content_type |-> "", body |-> "", status |-> 0]}

\* What a controller action raises.  The message is a translatable Message;
\* the explanation of a 404 is the one of its class or a Message.
Raised(cls, code, explanation) ==
    [cls |-> cls, code |-> code, message |-> Message(cls),
     explanation |-> explanation, detail |-> Message(cls), id |-> 1,
     disguised |-> FALSE]
Raisable ==
    {Raised("TypeError", 0, Str("")),
     Raised("ValueError", 0, Str("")),
     Raised("HTTPCreated", 201, Str("<HTTPCreated.explanation>")),
     Raised("HTTPFound", 302, Str("<HTTPFound.explanation>")),
     Raised("HTTPNotFound", 404, Str("<HTTPNotFound.explanation>")),
     Raised("HTTPNotFound", 404, Message("explained"))}

\* _('The server could not comply with the request since ...'): a Message
\* when lazy translation is enabled, a str when it is not
MalformedRequest(lazy) ==
    IF lazy THEN Message("malformed or otherwise incorrect")
    ELSE Str("malformed or otherwise incorrect")

\* The three except clauses of the controller call: the exception that
\* leaves Resource.__call__ and what is logged.
except_TypeError_bare(e, locale, lazy) ==
    [exc |-> HTTPBadRequest(MalformedRequest(lazy), 2), logged |-> <<"error">>]

except_TypeError(e, locale, lazy) ==
    LET http_exc == translate_exception(HTTPBadRequest(MalformedRequest(lazy), 2),
                                        locale)
    IN  [exc |-> HTTPExceptionDisguise(http_exc), logged |-> <<"error">>]

\* isinstance(e, (webob.exc.HTTPOk, webob.exc.HTTPRedirection))
NotAnError_okOnly(e) == IsHTTPOk(e)
NotAnError(e) == IsHTTPOk(e) \/ IsHTTPRedirection(e)

except_HTTPException(e, locale) ==
    IF NotAnError(e)
    THEN [exc |-> e, logged |-> <<>>]
    ELSE [exc |-> HTTPExceptionDisguise(translate_exception(e, locale)),
          logged |-> <<"error">>]

except_Exception_disguised(e, locale) ==
    [exc |-> HTTPExceptionDisguise(translate_exception(e, locale)),
     logged |-> <<"error">>]

except_Exception(e, locale) ==
    [exc |-> translate_exception(e, locale), logged |-> <<"error">>]

\* The controller call and its except clauses.
Resource_controller ==
    /\ rpc = "controller"
    /\ invoked' = Append(invoked, <<"controller", "MetricsController",
                                   dispatch("MetricsController", Action)>>)
    /\ \/ \E r \in Results :
            /\ action_result' = r
            /\ rpc' = "serialize"
            /\ UNCHANGED <<err, raised, log>>
       \/ \E e \in Raisable, lazy \in BOOLEAN :
            LET locale == best_match_language(request)
                out == CASE e.cls = "TypeError" -> except_TypeError(e, locale, lazy)
                         [] IsHTTPException(e) -> except_HTTPException(e, locale)
                         [] OTHER -> except_Exception(e, locale)
            IN  /\ err' = e
                /\ raised' = out.exc
                /\ log' = log \o out.logged
                /\ rpc' = "raised"
                /\ UNCHANGED action_result
    /\ UNCHANGED <<server, request, match, serializer, action_args, response,
                   status>>

\* The serializer of lines 617-622: the one the Resource was constructed
\* with, or one chosen by the ContentType parameter.
SerializerFor_caseless(given, content_type) ==
    IF given # "None" THEN given
    ELSE IF content_type \in {"JSON", "json"} THEN "JSONResponseSerializer"
         ELSE "XMLResponseSerializer"

SerializerFor(given, content_type) ==
    IF given # "None" THEN given
    ELSE IF content_type = "JSON" THEN "JSONResponseSerializer"
         ELSE "XMLResponseSerializer"

\* response.content_type as the default method of the class sets it
ContentTypeOf(cls) ==
    IF cls = "XMLResponseSerializer" THEN "application/xml" ELSE "application/json"

\* Whether the method of the serializer writes the result without raising:
\* json.dumps and to_xml need a dict, QuerySerializer.create reads
\* result['stack']['links'][0]['href'].
Serializes(cls, method, result) ==
    IF method = "create" THEN result.kind = "stack"
    ELSE result.kind \in {"stack", "dict"}

\* The response a serializer method has written.
Written(cls, method) ==
    [kind |-> "Response", content_type |-> ContentTypeOf(cls),
     body |-> IF cls = "XMLResponseSerializer" THEN "xml" ELSE "json",
     status |-> IF method = "create" THEN 201 ELSE 200]

\* The except clause of lines 629-646: what is returned, what is logged and
\* which methods were called.
unserializable_anyType(result, content_type, cls) ==
    IF result.kind = "MatraAPIException"
    THEN [result |-> [result EXCEPT !.content_type = ContentTypeOf(cls),
                                    !.body = "json"],
          logged |-> <<>>,
          calls |-> <<<<"result", result.kind, "get_unserialized_body">>,
                      <<"serializer", cls, "default">>>>]
    ELSE [result |-> result, logged |-> <<"warning">>,
          calls |-> <<<<"result", result.kind, "get_unserialized_body">>>>]

unserializable(result, content_type, cls) ==
    IF content_type = "JSON"
    THEN IF result.kind = "MatraAPIException"
         THEN [result |-> [result EXCEPT !.content_type = ContentTypeOf(cls),
                                         !.body = IF cls = "XMLResponseSerializer"
                                                  THEN "xml" ELSE "json"],
               logged |-> <<>>,
               calls |-> <<<<"result", result.kind, "get_unserialized_body">>,
                           <<"serializer", cls, "default">>>>]
         ELSE [result |-> result, logged |-> <<"warning">>,
               calls |-> <<<<"result", result.kind, "get_unserialized_body">>>>]
    ELSE [result |-> result, logged |-> <<>>, calls |-> <<>>]

\* The serializer call and the except clause around it.
Resource_serialize ==
    /\ rpc = "serialize"
    /\ LET content_type == request.ContentType
           cls == SerializerFor(serializer, content_type)
           m == dispatch(cls, Action)
       IN  IF Serializes(cls, m, action_result)
           THEN /\ response' = Written(cls, m)
                /\ invoked' = Append(invoked, <<"serializer", cls, m>>)
                /\ UNCHANGED <<action_result, log>>
           ELSE LET out == unserializable(action_result, content_type, cls)
                IN  /\ action_result' = out.result
                    /\ response' = out.result
                    /\ invoked' = Append(invoked, <<"serializer", cls, m>>) \o out.calls
                    /\ log' = log \o out.logged
    /\ rpc' = "returned"
    /\ UNCHANGED <<server, request, match, serializer, action_args, err,
                   raised, status>>

\* webob.dec.wsgify around Resource.__call__: an HTTPException that is raised
\* is the response; any other exception goes on to the caller; what is
\* returned is called as a WSGI application, which sends a Response (an API
\* exception is one) with its status and fails for any other object.
wsgify ==
    /\ rpc \in {"raised", "returned"}
    /\ IF rpc = "raised"
       THEN IF IsHTTPException(raised) /\ ~raised.disguised
            THEN status' = raised.code /\ rpc' = "done"
            ELSE status' = status /\ rpc' = "propagated"
       ELSE IF response.kind \in {"Response", "MatraAPIException"}
            THEN status' = response.status /\ rpc' = "done"
            ELSE status' = status /\ rpc' = "propagated"
    /\ UNCHANGED <<server, request, match, serializer, invoked, action_args,
                   action_result, response, err, raised, log>>

ResourceNext ==
    \/ Router_dispatch
    \/ Resource_deserialize
    \/ Resource_controller
    \/ Resource_serialize
    \/ wsgify

ResourceSpec == ResourceInit /\ [][ResourceNext]_vars

\* ================================================= XMLResponseSerializer
\* A result is a tree of records [type, items]: the int 1, a str (items is
\* its characters), a list (items is its members) or a dict (items is its
\* (key, value) pairs in the order dict.items() gives them).  JsonInt,
\* JsonDict and JsonList above are the int, the empty dict and the list.
PyStr(cs) == [type |-> "str", items |-> cs]
PyDict(kvs) == [type |-> "dict", items |-> kvs]

\* JSON_ONLY_KEYS = ('TemplateBody', 'Metadata')
JSON_ONLY_KEYS == {"TemplateBody", "Metadata"}

\* "if value": the truth value of an object
IsTrue(v) == IF v.type = "int" THEN TRUE ELSE v.items # <<>>

\* str(obj) of an int or a str
str(v) == IF v.type = "int" THEN <<"1">> ELSE v.items

\* json.dumps of an int, a list or the empty dict, with the separator ", "
RECURSIVE dumps(_), dumps_items(_)
dumps_items(xs) ==
    IF xs = <<>> THEN <<>>
    ELSE IF Len(xs) = 1 THEN dumps(xs[1])
    ELSE dumps(xs[1]) \o <<",", " ">> \o dumps_items(Tail(xs))
dumps(v) ==
    CASE v.type = "int" -> <<"1">>
      [] v.type = "list" -> <<"[">> \o dumps_items(v.items) \o <<"]">>
      [] v.type = "dict" -> <<"{", "}">>

\* etree.Element(tag) and etree.SubElement(element, tag): an element with no
\* text and no children
Element(tag) == [tag |-> tag, text |-> <<>>, children |-> <<>>]

\* XMLResponseSerializer.object_to_element: the element after the call
RECURSIVE object_to_element(_, _)
json_only(value, subelement) ==
    IF IsTrue(value) THEN [subelement EXCEPT !.text = dumps(value)]
    ELSE subelement
object_to_element(obj, element) ==
    CASE obj.type = "list" ->
            [element EXCEPT !.children =
                [i \in 1..Len(obj.items) |->
                    object_to_element(obj.items[i], Element("member"))]]
      [] obj.type = "dict" ->
            [element EXCEPT !.children =
                [i \in 1..Len(obj.items) |->
                    LET key == obj.items[i][1]
                        value == obj.items[i][2]
                    IN  IF key \in JSON_ONLY_KEYS
                        THEN json_only(value, Element(key))
                        ELSE object_to_element(value, Element(key))]]
      [] OTHER -> [element EXCEPT !.text = str(obj)]

\* XMLResponseSerializer.to_xml: the root is the first key of the mapping
to_xml(data) ==
    LET root == data.items[1][1]
    IN  object_to_element(data.items[1][2], Element(root))

\* The results that are serialized: a single-key mapping whose value is built
\* from mappings, sequences and scalars nested up to MaxDepth levels.  The
\* values under the JSON_ONLY_KEYS are the ones json.dumps above writes.
MaxDepth == 2
TreeKeys == {"a", "member", "Metadata"}
JsonValues ==
    {JsonInt, JsonDict, JsonList(<<>>), JsonList(<<JsonInt>>),
     JsonList(<<JsonDict, JsonInt>>)}
Scalars == {JsonInt, PyStr(<<"a">>), PyStr(<<>>)}
RECURSIVE Trees(_)
Trees(depth) ==
    IF depth = 0 THEN Scalars \cup {JsonDict, JsonList(<<>>)}
    ELSE LET sub == Trees(depth - 1)
         IN  sub
             \cup {JsonList(<<x>>) : x \in sub}
             \cup {PyDict(<<<<k, x>>>>) : k \in TreeKeys \ JSON_ONLY_KEYS, x \in sub}
             \cup {PyDict(<<<<k, x>>>>) : k \in TreeKeys \cap JSON_ONLY_KEYS,
                                          x \in JsonValues}
             \cup {PyDict(<<<<"a", x>>, <<"b", x>>>>) : x \in Scalars}
             \cup {JsonList(<<x, y>>) : x \in Scalars, y \in Scalars}
Data == {PyDict(<<<<"Root", x>>>>) : x \in Trees(MaxDepth)}

\* One call of XMLResponseSerializer.default on a result: the response gets
\* the content type and the element tree that to_xml writes.
XmlInit ==
    /\ ServerInit
    /\ workers = 0
    /\ ~cert_file
    /\ ~key_file
    /\ request = [method |-> "GET", ContentType |-> NoParam, content_type |-> "",
                  content_length |-> NoLength, body |-> <<>>,
                  accept_language |-> ""]
    /\ match = {}
    /\ serializer = "None"
    /\ rpc = "serialize"
    /\ invoked = <<>>
    /\ action_args = {}
    /\ action_result \in Data
    /\ response = NoResult
    /\ err = NoException
    /\ raised = NoException
    /\ log = <<>>
    /\ status = 0

XMLResponseSerializer_default ==
    /\ rpc = "serialize"
    /\ response' = [kind |-> "Response", content_type |-> "application/xml",
                    body |-> to_xml(action_result), status |-> 200]
    /\ invoked' = Append(invoked, <<"serializer", "XMLResponseSerializer", "default">>)
    /\ rpc' = "returned"
    /\ UNCHANGED <<server, request, match, serializer, action_args,
                   action_result, err, raised, log, status>>

XmlSpec == XmlInit /\ [][XMLResponseSerializer_default]_vars

\* ================================================================ claims
Range(s) == {s[i] : i \in DOMAIN s}
ChildrenOf(p) == {q \in Procs : parent[q] = p}
ReapLoop == {"reap_head", "reap_call", "reap_wait", "reap_got"}
BindErrors == {"ConfigError", "BindError", "socket.error", "SSLError"}
\* process p forks in this step
Forks(p) == \E q \in Procs : parent[q] # p /\ parent'[q] = p

\* C1: when os.wait has returned a dead worker to the running supervisor,
\* the supervisor's next step (other than a keyboard interrupt) removes the
\* pid from children and forks exactly one replacement, len(children) is
\* conf.workers again at the head of the loop, and the supervisor lives on.
C1_WorkerExitRespawns ==
    [][(pc[Sup] = "reap_got" /\ running[Sup] /\ pc'[Sup] # "reap_got"
         /\ ~keyboard_interrupt(Sup))
       => /\ pc'[Sup] = "reap_head"
          /\ Len(children'[Sup]) = workers
          /\ wpid[Sup] \notin Range(children'[Sup])
          /\ Cardinality(ChildrenOf(Sup)') = Cardinality(ChildrenOf(Sup)) + 1]_vars

\* C2: in every reachable state, self.children of the supervisor (and of
\* every other process) holds at most conf.workers pids.
C2_ChildrenBounded == \A p \in Procs : Len(children[p]) <= workers

\* C2 witness: the supervisor has reaped a worker, forked its replacement and
\* run hup, and holds conf.workers pids.
C2_Witness ==
    /\ workers >= 1
    /\ pc[Sup] \in ReapLoop
    /\ \E c \in ChildrenOf(Sup) : c \in reaped
    /\ handled[Sup]["HUP"] = 1
    /\ Len(children[Sup]) = workers

\* C3: once running is false in the supervisor in its reap loop, the
\* supervisor forks no further worker.
C3_NoForkAfterStop ==
    [][(pc[Sup] \in ReapLoop /\ ~running[Sup]) => ~Forks(Sup)]_vars

\* what a step leaves alone in process p
Untouched(p) ==
    /\ pc'[p] = pc[p]
    /\ children'[p] = children[p]
    /\ running'[p] = running[p]
    /\ disp'[p] = disp[p]
    /\ handled'[p] = handled[p]
\* kill_children, hup runs in process p in this step
RunsTerm(p) == handled'[p]["TERM"] > handled[p]["TERM"]
RunsHup(p) == handled'[p]["HUP"] > handled[p]["HUP"]

\* C4: when kill_children runs in the supervisor it is its first run, and
\* after the step the supervisor ignores SIGTERM, running is false, every
\* process that had the default disposition of SIGTERM is terminated
\* wherever it was (serving or waiting for its requests in flight), and the
\* supervisor is alive; a SIGTERM sent to the supervisor never ends it once
\* the handler is installed, and one sent after the handler ran changes
\* nothing in the supervisor.
C4_SigtermKillsGroupOnce ==
    /\ [][RunsTerm(Sup)
          => /\ handled[Sup]["TERM"] = 0
             /\ handled'[Sup]["TERM"] = 1
             /\ disp'[Sup]["TERM"] = "IGN"
             /\ ~running'[Sup]
             /\ pc'[Sup] \notin Gone
             /\ children'[Sup] = children[Sup]
             /\ \A q \in Procs :
                  (Alive(q) /\ disp[q]["TERM"] = "DFL") => pc'[q] = "killed"]_vars
    /\ [][(signal("TERM", Sup) /\ disp[Sup]["TERM"] # "DFL")
          => pc'[Sup] \notin Gone]_vars
    /\ [][(signal("TERM", Sup) /\ handled[Sup]["TERM"] >= 1)
          => (Untouched(Sup) /\ \A q \in Procs : pc'[q] = pc[q])]_vars

\* C4 witness: kill_children has run in the supervisor, which lives on with
\* SIGTERM ignored; a worker it forked was killed by a signal, and a second
\* signal has been sent.
C4_Witness ==
    /\ handled[Sup]["TERM"] = 1
    /\ disp[Sup]["TERM"] = "IGN"
    /\ ~running[Sup]
    /\ Alive(Sup)
    /\ sigBudget = 0
    /\ \E q \in ChildrenOf(Sup) : pc[q] = "killed"

\* C5: when hup runs in the supervisor it is its first run; the step sets
\* running to false and SIGHUP to ignored and changes nothing else: no
\* process is killed, nothing is forked, children is the same. A later
\* SIGHUP to the supervisor changes nothing at all, and while the supervisor
\* lives running never goes back to true.
C5_SighupDrainsOnce ==
    /\ [][RunsHup(Sup)
          => /\ handled[Sup]["HUP"] = 0
             /\ handled'[Sup]["HUP"] = 1
             /\ ~running'[Sup]
             /\ disp'[Sup] = [disp[Sup] EXCEPT !["HUP"] = "IGN"]
             /\ children' = children
             /\ parent' = parent
             /\ \A q \in Procs \ {Sup} : Untouched(q)
             /\ pc'[Sup] = Eintr(pc, Sup)[Sup]]_vars
    /\ [][(signal("HUP", Sup) /\ handled[Sup]["HUP"] >= 1)
          => \A q \in Procs : Untouched(q) /\ parent'[q] = parent[q]]_vars
    /\ [][(~running[Sup] /\ Alive(Sup) /\ pc'[Sup] \notin Gone) => ~running'[Sup]]_vars

\* C5 witness: hup has run in the supervisor with a worker serving, and a
\* second signal has been sent since.
C5_Witness ==
    /\ handled[Sup]["HUP"] = 1
    /\ disp[Sup]["HUP"] = "IGN"
    /\ ~running[Sup]
    /\ sigBudget = 0
    /\ \E q \in ChildrenOf(Sup) : pc[q] = "serving"

\* C6: the supervisor forks only with both handlers installed (or already
\* run), and when start has returned with conf.workers > 0, children holds
\* exactly conf.workers distinct pids, which are the processes it forked.
C6_StartForksWorkers ==
    /\ [][Forks(Sup) => \A s \in Sigs : disp[Sup][s] # "DFL"]_vars
    /\ []((pc[Sup] = "started" /\ workers > 0)
          => /\ Len(children[Sup]) = workers
             /\ Cardinality(Range(children[Sup])) = workers
             /\ Range(children[Sup]) = ChildrenOf(Sup))

\* C6 witness: start has returned in the supervisor with two workers.
C6_Witness == pc[Sup] = "started" /\ workers = 2 /\ Len(children[Sup]) = 2

\* C7: with conf.workers = 0 nothing is ever forked, no handler is ever
\* installed, children stays empty, the supervisor never is in the reap loop
\* and never shuts the socket down, and once start has returned self.pool
\* has size self.threads and wait waits on it.
C7_SingleProcess ==
    workers = 0
    => /\ \A q \in Procs \ {Sup} : pc[q] = "unborn"
       /\ \A s \in Sigs : disp[Sup][s] = "DFL"
       /\ children[Sup] = <<>>
       /\ pc[Sup] \notin ReapLoop \cup {"release", "start_loop"}
       /\ ~sockShutdown
       /\ released[Sup] = 0
       /\ (pc[Sup] \in {"started", "pool_wait"} => pool[Sup] = threads)

\* C7 witness: the single process server waits on its pool.
C7_Witness == workers = 0 /\ pc[Sup] = "pool_wait" /\ pool[Sup] = threads

\* C8: when get_socket has raised, start has ended with that error, no
\* handler is installed, nothing was forked, children is empty and there is
\* no pool; and start goes past get_socket only with a socket.
C8_BindFailureFatal ==
    /\ (exc[Sup] \in BindErrors
        => /\ pc[Sup] = "raised"
           /\ \A s \in Sigs : disp[Sup][s] = "DFL" /\ handled[Sup][s] = 0
           /\ \A q \in Procs \ {Sup} : pc[q] = "unborn"
           /\ children[Sup] = <<>>
           /\ pool[Sup] = 0)
    /\ (lastListen = "EOTHER" => exc[Sup] = "socket.error")
    /\ (sock = "None" => pc[Sup] \in {"new", "gs_loop", "raised", "killed"})

\* C8 witness: listen failed with an error other than EADDRINUSE in a
\* configuration that asks for workers.
C8_Witness ==
    /\ workers > 0
    /\ pc[Sup] = "raised"
    /\ exc[Sup] = "socket.error"
    /\ lastListen = "EOTHER"

\* C9: get_socket attempts listen only without a socket, inside the window
\* and after no failure other than EADDRINUSE; another error is raised at
\* once; "could not bind" is raised only after the window, with the last
\* attempt failed on EADDRINUSE; a socket is returned only after a listen
\* that succeeded; and get_socket always ends.
C9_RetryWindow ==
    /\ [][get_socket_iterate
          => /\ sock = "None"
             /\ clock < retry_until
             /\ lastListen \in {"none", "EADDRINUSE"}
             /\ (lastListen' = "EADDRINUSE"
                 => clock' > clock /\ pc'[Sup] = "gs_loop" /\ sock' = "None")
             /\ (lastListen' = "EOTHER"
                 => pc'[Sup] = "raised" /\ exc'[Sup] = "socket.error")]_vars
    /\ [](pc[Sup] = "gs_loop" => lastListen # "EOTHER")
    /\ [](exc[Sup] = "BindError"
          => /\ pc[Sup] = "raised"
             /\ lastListen = "EADDRINUSE"
             /\ sock = "None"
             /\ clock >= retry_until)
    /\ [](pc[Sup] = "start_mode" => lastListen = "ok" /\ sock # "None")
    /\ <>(pc[Sup] \in {"raised", "start_mode"})

\* C9 witness: the window ran out with every attempt failed on EADDRINUSE.
C9_Witness ==
    /\ pc[Sup] = "raised"
    /\ exc[Sup] = "BindError"
    /\ clock >= RetrySeconds * TicksPerSecond

\* C10: with exactly one of cert_file and key_file set, get_socket raises
\* the configuration error and never attempts listen; the socket it returns
\* is the TLS one when both are set and the plain one when neither is.
C10_TlsConfig ==
    /\ (cert_file # key_file
        => /\ pc[Sup] \in {"new", "raised"}
           /\ (pc[Sup] = "raised" => exc[Sup] = "ConfigError")
           /\ lastListen = "none"
           /\ sock = "None")
    /\ (exc[Sup] = "ConfigError" => cert_file # key_file)
    /\ (pc[Sup] = "start_mode"
        => sock = IF cert_file /\ key_file THEN "tls" ELSE "plain")

\* C10 witness: only cert_file is set and get_socket has raised.
C10_Witness ==
    /\ cert_file
    /\ ~key_file
    /\ pc[Sup] = "raised"
    /\ exc[Sup] = "ConfigError"

\* ------------------------------------------------------------------ C11
Called(role) == {c \in Range(invoked) : c[1] = role}
IsJsonSerializer(cls) == cls \in {"JSONResponseSerializer", "QuerySerializer"}

BodyRead == (\E kv \in action_args : kv[1] = "body") \/ raised.id = 3
Deserialized == Called("deserializer") # {}

\* C12 as stated: has_body is true exactly when Content-Length > 0, the body
\* starts with '{' and the Content-Type header is application/json or JSON,
\* or the request is a GET whose ContentType parameter says JSON, or the
\* Content-Type is empty or text/plain.
C12_HasBodyAsStated ==
    Deserialized =>
        (BodyRead <=>
            /\ request.content_length > 0
            /\ startswith(request.body, "{")
            /\ \/ request.content_type \in {"application/json", "JSON"}
               \/ request.method = "GET"
                    /\ request.ContentType \in {"JSON", "application/json"}
               \/ request.content_type \in {"", "text/plain"})

\* C12 amended: has_body is true exactly when Content-Length > 0, the body
\* starts with '{' and the content type that counts is empty, begins with
\* text/plain, or is JSON or application/json; the content type that counts
\* is the ContentType parameter for a GET that carries a non-empty one, and
\* the Content-Type header for every other request.  For a GET with
\* ContentType=JSON and no Content-Type header, has_body is false for an
\* empty body and true for a body that starts with '{'.
C12_HasBody ==
    LET counts == IF request.method = "GET"
                     /\ request.ContentType \notin {NoParam, ""}
                  THEN request.ContentType ELSE request.content_type
    IN  Deserialized =>
          /\ BodyRead <=>
                /\ request.content_length > 0
                /\ request.body # <<>>
                /\ request.body[1] = "{"
                /\ counts \in {"", "text/plain", "text/plainx", "JSON",
                               "application/json"}
          /\ (request.method = "GET" /\ request.ContentType = "JSON"
                /\ request.content_type = "" /\ request.content_length > 0)
              => (BodyRead <=> request.body[1] = "{")
          /\ (request.method = "GET" /\ request.ContentType = "JSON"
                /\ request.content_type = "" /\ request.body = <<>>)
              => ~BodyRead

\* C12 witness: a GET with ContentType=JSON, no Content-Type header and the
\* body {} has been deserialized, and the parsed body is among the arguments.
C12_Witness ==
    /\ rpc = "controller"
    /\ request.method = "GET"
    /\ request.ContentType = "JSON"
    /\ request.content_type = ""
    /\ request.body = <<"{", "}">>
    /\ request.content_length = 2
    /\ <<"body", JsonDict>> \in action_args

\* ------------------------------------------------------------------ C13
\* C13: when the controller action raises a TypeError, the error is logged
\* and what leaves Resource is an HTTPExceptionDisguise around a 400 Bad
\* Request whose explanation is the fixed malformed-request message in the
\* request's language and whose detail is empty; no serializer is called, no
\* response is returned, and the TypeError itself does not leave Resource.
C13_TypeErrorIsBadRequest ==
    err.cls = "TypeError" =>
        /\ rpc \in {"raised", "propagated"}
        /\ log = <<"error">>
        /\ raised.disguised
        /\ raised.cls = "HTTPBadRequest"
        /\ raised.code = 400
        /\ raised.id # err.id
        /\ raised.message.text = "malformed or otherwise incorrect"
        /\ raised.explanation = raised.message
        /\ raised.message.lazy => raised.message.locale = best_match_language(request)
        /\ raised.detail = Str("")
        /\ Called("serializer") = {}
        /\ response = NoResult
        /\ status = 0

\* C13 witness: the controller raised a TypeError for a request that asks for
\* German, and the disguised 400 with the German message has left Resource.
C13_Witness ==
    /\ err.cls = "TypeError"
    /\ rpc = "propagated"
    /\ request.accept_language = "de"
    /\ raised.disguised
    /\ raised.code = 400
    /\ raised.explanation = [text |-> "malformed or otherwise incorrect",
                             lazy |-> TRUE, locale |-> "de"]

\* ------------------------------------------------------------------ C14
\* C14: when the controller action raises a 2xx or 3xx HTTP exception, the
\* exception that leaves Resource is that same object with its message,
\* explanation and detail unchanged and no disguise around it; nothing is
\* logged and no serializer is called.
C14_SuccessPassesThrough ==
    (IsHTTPOk(err) \/ IsHTTPRedirection(err)) =>
        /\ rpc \in {"raised", "done"}
        /\ raised = err
        /\ raised.id = 1
        /\ ~raised.disguised
        /\ raised.message.locale = ""
        /\ log = <<>>
        /\ Called("serializer") = {}
        /\ response = NoResult
        /\ rpc = "done" => status = err.code

\* C14 witness: a 302 raised by the controller for a request that asks for
\* German has been sent as it was raised.
C14_Witness ==
    /\ err.cls = "HTTPFound"
    /\ request.accept_language = "de"
    /\ rpc = "done"
    /\ status = 302
    /\ raised = Raised("HTTPFound", 302, Str("<HTTPFound.explanation>"))

\* ------------------------------------------------------------------ C15
\* C15: an HTTP exception that is no 2xx or 3xx and is raised by the
\* deserializer call or by the controller call leaves Resource translated to
\* the request's language and inside an HTTPExceptionDisguise, never bare.
C15_ErrorsLeaveDisguised ==
    (rpc \in {"raised", "done", "propagated"} /\ IsHTTPException(raised)
        /\ ~IsHTTPOk(raised) /\ ~IsHTTPRedirection(raised))
    => /\ raised.disguised
       /\ raised.message.lazy => raised.message.locale = best_match_language(request)

SerializationFailed ==
    /\ Called("serializer") # {}
    /\ rpc # "serialize"
    /\ response.kind # "Response"

\* C17: when the serializer call raises, no exception leaves
\* Resource.__call__ and what it returns is the action_result of the
\* controller.  Only for ContentType=JSON is get_unserialized_body called on
\* the result: if the result has one, its body is written again as JSON into
\* the result; if not, a warning is logged and the result is returned as it
\* was.  For any other ContentType nothing is called after the failed
\* serializer method and the result is returned as it was.
C17_SerializationFailureReturnsResult ==
    SerializationFailed =>
        /\ raised = NoException
        /\ response = action_result
        /\ \E r \in Results : r.kind = response.kind
        /\ Cardinality(Called("controller")) = 1
        /\ IF request.ContentType = "JSON"
           THEN /\ \E c \in Called("result") : c[3] = "get_unserialized_body"
                /\ IF response.kind = "MatraAPIException"
                   THEN /\ response.content_type = "application/json"
                        /\ response.body = "json"
                        /\ log = <<>>
                   ELSE /\ response \in Results
                        /\ log = <<"warning">>
           ELSE /\ Called("result") = {}
                /\ Cardinality(Called("serializer")) = 1
                /\ response \in Results
                /\ log = <<>>

\* C17 witness: for a request with ContentType=JSON the controller returned
\* an API exception, the serializer method raised, and the exception was
\* returned with its body written again as JSON.
C17_Witness ==
    /\ rpc = "done"
    /\ request.ContentType = "JSON"
    /\ serializer = "None"
    /\ response.kind = "MatraAPIException"
    /\ response.body = "json"
    /\ Called("serializer") = {<<"serializer", "JSONResponseSerializer", "default">>}
    /\ Called("result") # {}

\* ------------------------------------------------------------------ C18
\* C18: for a request that matches no route, Router._dispatch returns a 404
\* Not Found response and that ends the request; no method of a
\* deserializer, a controller or a serializer is ever called for it.
C18_UnknownRouteIs404 ==
    match = {} =>
        /\ invoked = <<>>
        /\ rpc \in {"route", "done"}
        /\ rpc = "done" => /\ response = HTTPNotFoundResponse
                           /\ status = 404
                           /\ raised = NoException

\* C18 witness: a request that matched no route has been answered with 404.
C18_Witness ==
    /\ match = {}
    /\ rpc = "done"
    /\ status = 404
    /\ response.kind = "HTTPNotFound"
    /\ invoked = <<>>

\* ------------------------------------------------------------------ C19
\* C19: when has_body holds for a request and json.loads rejects its body,
\* the deserializer raises a 400 Bad Request whose message is the one of the
\* parser, neither the controller nor a serializer is ever called, and the
\* request is answered with status 400 instead of an exception going on to
\* the caller.
C19_MalformedBodyIs400 ==
    (Deserialized /\ has_body(request) /\ ~loads(request.body).ok) =>
        /\ rpc \in {"raised", "done"}
        /\ raised.cls = "HTTPBadRequest"
        /\ raised.code = 400
        /\ raised.message = Str(loads(request.body).msg)
        /\ raised.detail = raised.message
        /\ raised.message.text \in {"Expecting property name", "Extra data"}
        /\ Called("controller") = {}
        /\ Called("serializer") = {}
        /\ rpc = "done" => status = 400

\* C19 witness: a POST with a JSON Content-Type and the body {}x has been
\* answered with the 400 that carries the parser's "Extra data".
C19_Witness ==
    /\ rpc = "done"
    /\ status = 400
    /\ request.method = "POST"
    /\ request.content_type = "application/json"
    /\ request.body = <<"{", "}", "x">>
    /\ raised.message.text = "Extra data"
    /\ invoked = <<<<"deserializer", "JSONRequestDeserializer", "default">>>>

\* ------------------------------------------------------------------ C20
\* The request with another value of the ContentType parameter, or none.
WithParam(p) == [request EXCEPT !.ContentType = p]

\* C20 as stated: has_body and the mapping that the deserializer's default
\* returns are the same for any two requests that differ only in the
\* ContentType parameter, whatever the method is; stated of the requests
\* whose deserializer call has returned.
C20_ParameterNeverParses ==
    rpc = "controller" =>
        \A p \in Params :
            /\ has_body(WithParam(p)) = has_body(request)
            /\ default(WithParam(p)) = default(request)

\* C20 amended: for a request of any method other than GET, has_body and the
\* mapping that the deserializer's default returns are the same whatever the
\* ContentType parameter is, and the deserializer call of Resource reads a
\* body exactly when it does so for the request without the parameter.
C20_ParameterParsesOnlyGet ==
    request.method # "GET" =>
        /\ \A p \in Params :
              /\ has_body(WithParam(p)) = has_body(request)
              /\ default(WithParam(p)) = default(request)
        /\ Deserialized => (BodyRead <=> has_body(WithParam(NoParam)))

\* C20 witness: a POST with ContentType=JSON, an XML Content-Type and the
\* body {} has been deserialized without its body, as it is without the
\* parameter.
C20_Witness ==
    /\ rpc = "controller"
    /\ request.method = "POST"
    /\ request.ContentType = "JSON"
    /\ request.content_type = "application/xml"
    /\ request.body = <<"{", "}">>
    /\ request.content_length = 2
    /\ ~BodyRead
    /\ action_args = {<<"tenant_id", "t1">>}

\* The tree with every scalar replaced by its text: what is left of a tree
\* when its scalars are read as the text str() wrote.
RECURSIVE AsText(_)
AsText(v) ==
    CASE v.type = "list" -> JsonList([i \in 1..Len(v.items) |-> AsText(v.items[i])])
      [] v.type = "dict" ->
            PyDict([i \in 1..Len(v.items) |->
                       <<v.items[i][1],
                         IF v.items[i][1] \in JSON_ONLY_KEYS THEN v.items[i][2]
                         ELSE AsText(v.items[i][2])>>])
      [] OTHER -> PyStr(str(v))

\* Walking an element back: the children called "member" are the items of a
\* sequence, other children are the keys of a mapping, an element without
\* children is the scalar of its text, and the text of an element called as
\* one of JSON_ONLY_KEYS is parsed as JSON ("invalid" when it is not JSON).
RECURSIVE WalkBack(_)
WalkBack(element) ==
    LET n == Len(element.children)
    IN  IF n = 0 THEN PyStr(element.text)
        ELSE IF \A i \in 1..n : element.children[i].tag = "member"
        THEN JsonList([i \in 1..n |-> WalkBack(element.children[i])])
        ELSE PyDict([i \in 1..n |->
                 LET child == element.children[i]
                 IN  <<child.tag,
                       IF child.tag \in JSON_ONLY_KEYS
                       THEN LET parsed == loads(child.text)
                            IN  IF parsed.ok THEN parsed.value
                                ELSE PyStr(<<"invalid">>)
                       ELSE WalkBack(child)>>])

\* C21: walking the XML of a single-root mapping back gives the same tree
\* (its scalars as their text), and under TemplateBody and Metadata the text
\* is JSON that parses back to the original value, whatever the value is.
C21_XmlRoundTrip ==
    rpc = "returned" =>
        PyDict(<<<<response.body.tag, WalkBack(response.body)>>>>)
            = AsText(action_result)

\* The positions of a worker: run_child in the child, run_server, terminated.
WorkerStates == {"child_hup", "child_term", "serving", "waitall"} \cup Dead

\* C22: a forked worker has reset SIGHUP and SIGTERM to the default before it
\* serves, serves until the serving loop exits and then terminates: it never
\* forks and never is in the start loop or the reap loop.
C22_WorkerLifeCycle ==
    [][\A p \in Procs :
          parent'[p] # NoPid =>
              /\ pc'[p] \in WorkerStates
              /\ ~Forks(p)
              /\ pc'[p] = "serving" => disp'[p] = [s \in Sigs |-> "DFL"]]_vars

\* C23: once a handler of SIGHUP or SIGTERM has cleared running in the
\* supervisor while it is in the reap loop, at whatever point of the loop,
\* the supervisor leaves the loop and releases the listening socket (or has
\* ended with an error), whether or not a worker exits afterwards.
C23_DrainEnds ==
    (pc[Sup] \in ReapLoop /\ ~running[Sup])
        ~> (released[Sup] > 0 \/ pc[Sup] \in Dead)

\* C24: a KeyboardInterrupt raised in the supervisor inside the reap loop
\* takes it out of the loop to the release of the listening socket, with
\* children as it was and without a fork.
C24_InterruptLeavesLoop ==
    [][(keyboard_interrupt(Sup) /\ pc[Sup] \in ReapLoop) =>
          /\ pc'[Sup] = "release"
          /\ children'[Sup] = children[Sup]
          /\ ~Forks(Sup)]_vars

\* a handler ran in process p while p was in the system call of os.wait:
\* the call ends with OSError(EINTR)
WaitInterrupted(p) == pc[p] = "reap_wait" /\ (RunsTerm(p) \/ RunsHup(p))

\* C25: in the reap loop os.wait failing with EINTR or ECHILD is passed over,
\* children stays as it is, nothing is forked and the loop is back at the
\* test of running; os.wait failing with another errno ends
\* wait_on_children with that OSError.
C25_WaitErrors ==
    [][\A p \in Procs :
          /\ (WaitInterrupted(p) \/ reap_echild(p)) =>
                /\ pc'[p] = "reap_head"
                /\ children'[p] = children[p]
                /\ ~Forks(p)
          /\ reap_wait_raises(p) =>
                /\ pc'[p] = "raised"
                /\ exc'[p] = "OSError(EIO)"
                /\ released'[p] = released[p]]_vars

\* Both cases at once: os.wait has failed with EIO in the supervisor, which
\* ended with that error, and another process is inside os.wait with no child
\* to wait for, where os.wait fails with ECHILD.
C25_Witness ==
    /\ pc[Sup] = "raised"
    /\ exc[Sup] = "OSError(EIO)"
    /\ \E p \in Procs : pc[p] = "reap_wait" /\ Waitable(p) = {}

\* The calls of the three roles in the order they were made.
Roles == <<"deserializer", "controller", "serializer">>
IsRoleCall(c) == c[1] \in Range(Roles)
RoleCalls == SelectSeq(invoked, IsRoleCall)
\* the method of cls that the route action names, or else its default method
Named(cls) == IF Action \in MethodsOf(cls) THEN Action ELSE "default"
\* the first calls are one call per role, in the order of the roles, each of
\* the method that the action names
InOrder(calls) ==
    \A i \in DOMAIN calls :
        /\ i <= Len(Roles)
        /\ calls[i][1] = Roles[i]
        /\ calls[i][3] = Named(calls[i][2])
\* the deserializer raised: nothing else is called; the controller raised:
\* the serializer is not called
RaiseEnds ==
    /\ (raised # NoException /\ err = NoException) => Len(RoleCalls) = 1
    /\ err # NoException => Len(RoleCalls) = 2

\* C26 as stated: per request the roles are called in the order deserializer,
\* controller, serializer, each at most once and each with the one method
\* that the action names (or else default); a role is called only if the
\* one before it returned.
C26_OneCallPerRole == InOrder(RoleCalls) /\ RaiseEnds

\* C26: the same, but for one more call: when the serializer's method has
\* failed, ContentType is JSON and the result has get_unserialized_body,
\* the default method of the same serializer is called after it.
C26_OneCallPerRoleButFallback ==
    /\ InOrder([i \in {j \in DOMAIN RoleCalls : j <= Len(Roles)} |-> RoleCalls[i]])
    /\ RaiseEnds
    /\ Len(RoleCalls) <= Len(Roles) + 1
    /\ Len(RoleCalls) = Len(Roles) + 1 =>
          /\ RoleCalls[4] = <<"serializer", RoleCalls[3][2], "default">>
          /\ request.ContentType = "JSON"
          /\ ~Serializes(RoleCalls[3][2], RoleCalls[3][3], action_result)
          /\ <<"result", action_result.kind, "get_unserialized_body">>
                \in Range(invoked)

\* the fallback has called default after the method named after the action
C26_Witness ==
    /\ rpc = "returned"
    /\ Len(RoleCalls) = 4
    /\ RoleCalls[3][3] = "create"
    /\ RoleCalls[4][3] = "default"

\* m in the language of the request when m is a Message, m itself otherwise
Localized(m) ==
    IF m.lazy THEN [text |-> m.text, lazy |-> TRUE,
                    locale |-> best_match_language(request)]
    ELSE m
\* the exceptions that translate_exception was called with: the one the
\* controller raised, or for a TypeError the new HTTPBadRequest
Translated ==
    IF err.cls = "TypeError"
    THEN {HTTPBadRequest(MalformedRequest(lazy), 2) : lazy \in BOOLEAN}
    ELSE {err}
\* t is what the claim says translate_exception returns for e
TranslationOf(e, t) ==
    /\ t.id = e.id
    /\ t.cls = e.cls
    /\ t.code = e.code
    /\ t.message = Localized(e.message)
    /\ IF IsHTTPError(e)
       THEN IF ~e.explanation.lazy
            THEN /\ t.explanation = Localized(e.message)
                 /\ t.detail = Str("")
            ELSE /\ t.explanation = Localized(e.explanation)
                 /\ t.explanation.text = e.explanation.text
                 /\ t.detail = Localized(e.detail)
       ELSE /\ t.explanation = e.explanation
            /\ t.detail = e.detail

\* C27: the exception that translate_exception returns is the object it was
\* given, with its message localized; of an HTTPError whose explanation is
\* no Message the explanation is the localized message and the detail is
\* empty; of an HTTPError whose explanation is a Message the explanation and
\* the detail are localized, each for itself; of any other exception the
\* explanation and the detail are left alone.
C27_TranslateException ==
    (err # NoException /\ ~IsHTTPOk(err) /\ ~IsHTTPRedirection(err)) =>
        \E e \in Translated :
            TranslationOf(e, [raised EXCEPT !.disguised = FALSE])

\* an HTTPNotFound with a Message as explanation was translated to German
C27_Witness ==
    /\ err = Raised("HTTPNotFound", 404, Message("explained"))
    /\ request.accept_language = "de"
    /\ raised.explanation = [text |-> "explained", lazy |-> TRUE, locale |-> "de"]
    /\ raised.detail.locale = "de"
    /\ raised.message # raised.explanation

\* C28: no step of the handling of a request, whether the request succeeds
\* or fails, changes the serializer the Resource was constructed with or the
\* routing arguments stored in the environment of the request: action,
\* controller and format are removed from the copy that becomes action_args.
C28_NoCrossRequestState ==
    [][/\ serializer' = serializer
       /\ match' = match
       /\ rpc' = "controller" =>
             /\ match' = Routed(Action)
             /\ \A k \in {"action", "controller", "format"} :
                    Get(action_args', k) = "None"]_vars

\* a routed request was answered, and the routing arguments still hold the
\* keys that its action arguments do not
C28_Witness ==
    /\ rpc = "done"
    /\ status = 201
    /\ serializer = "QuerySerializer"
    /\ match = Routed("create")
    /\ Get(action_args, "action") = "None"
    /\ Get(action_args, "tenant_id") = "t1"

\* C29: kill_children and hup run in the supervisor only: no forked process
\* has run either of them, whenever the signal reached it.
C29_HandlersOnlyInSupervisor ==
    \A p \in Procs :
        parent[p] # NoPid => \A sig \in Sigs : handled[p][sig] = 0

\* C30: whenever the supervisor leaves wait_on_children, by return or by an
\* exception, it has shut down and closed the listening socket, once.
C30_SocketReleasedOnExit ==
    [][(pc[Sup] \in ReapLoop \cup {"release"} /\ pc'[Sup] \in Dead) =>
          released'[Sup] = 1]_vars

\* the route parameters: the routing arguments but action, controller, format
RouteParams == {kv \in match : kv[1] \notin {"action", "controller", "format"}}
\* the deserializer call has raised: an exception is on its way and it is
\* not one of the controller
DeserializerRaised == raised # NoException /\ err = NoException

\* C31: when has_body is false the deserializer returns the empty mapping
\* and reads no body: it raises nothing and the action arguments of the
\* controller are the route parameters alone.  A body that is not empty and
\* does not start with '{' is such a case whatever the content type is: it
\* is never parsed and no 400 is raised for it.
C31_NoBodyNoParse ==
    Deserialized =>
        /\ ~has_body(request) =>
              /\ ~BodyRead
              /\ ~DeserializerRaised
              /\ action_args = RouteParams
        /\ (request.body # <<>> /\ request.body[1] # "{") =>
              /\ ~has_body(request)
              /\ ~BodyRead
              /\ ~DeserializerRaised
              /\ action_args = RouteParams

\* a POST with a JSON Content-Type, a positive Content-Length and the body
\* [1], which is JSON but no object, has reached the controller with the
\* route parameters alone
C31_Witness ==
    /\ rpc = "controller"
    /\ request.method = "POST"
    /\ request.content_type = "application/json"
    /\ request.body = <<"[", "1", "]">>
    /\ request.content_length = 3
    /\ action_args = {<<"tenant_id", "t1">>}
    /\ raised = NoException

====
